---------------------------- MODULE Spec2Model ----------------------------
(***************************************************************************)
(* A model of the PhantomVault IPC test client                             *)
(* (scripts/test-ipc-client.py): the length-prefixed framing, the JSON     *)
(* envelope codec and the synchronous request/response session of          *)
(* PhantomVaultIPCClient, together with the stream socket and the peer it  *)
(* talks to.                                                               *)
(*                                                                         *)
(* Text is a sequence of code points, a byte string a sequence of numbers  *)
(* in 0..255.  A Python value is a record [k, s, o]: k is its kind         *)
(* ("str", "int", "obj"), s the characters of a str or the digits of an    *)
(* int, o the key -> value function of a dict.                             *)
(***************************************************************************)
EXTENDS Integers, Sequences, FiniteSets, TLC

(***************************************************************************)
(* Bounds of the model.                                                    *)
(***************************************************************************)
MaxSockets == 1
MaxRequests == 1
MaxShortRead == 2
MaxCuts == 1
SessionSockets == 2
SessionRequests == 2
MaxClock == 1

HeaderWidth == 4

(***************************************************************************)
(* Text constants of the source.                                           *)
(***************************************************************************)
KeyType == <<116, 121, 112, 101>>
KeyPayload == <<112, 97, 121, 108, 111, 97, 100>>
KeyRequestId == <<114, 101, 113, 117, 101, 115, 116, 95, 105, 100>>
KeyClientId == <<99, 108, 105, 101, 110, 116, 95, 105, 100>>
ReqPrefix == <<114, 101, 113, 95>>
ClientPrefix == <<116, 101, 115, 116, 95, 99, 108, 105, 101, 110, 116, 95>>

Min(a, b) == IF a < b THEN a ELSE b

Take(s, n) == SubSeq(s, 1, Min(n, Len(s)))

Drop(s, n) == SubSeq(s, Min(n, Len(s)) + 1, Len(s))

\* Then(value), with value computed once however often Then uses it: the
\* result of a call held in a local variable
With(value, Then(_)) == CHOOSE r \in {Then(x) : x \in {value}} : TRUE

(***************************************************************************)
(* Python values.                                                          *)
(***************************************************************************)
PyStr(s) == [k |-> "str", s |-> s, o |-> <<>>]

PyInt(digits) == [k |-> "int", s |-> digits, o |-> <<>>]

PyDict(o) == [k |-> "obj", s |-> <<>>, o |-> o]

\* d[key] = value on a dict's key -> value function: a later store wins.
DictSet(o, key, value) == (key :> value) @@ o

(***************************************************************************)
(* str(int(...)) and int(time.time()): decimal digits of a natural number. *)
(***************************************************************************)
RECURSIVE IntToStr(_)
IntToStr(n) ==
    IF n < 10 THEN <<48 + n>> ELSE IntToStr(n \div 10) \o <<48 + (n % 10)>>

(***************************************************************************)
(* struct.pack('I', n) and struct.unpack('I', b): a 4-byte unsigned        *)
(* integer in the byte order of the host.                                  *)
(***************************************************************************)
Pack(order, n) ==
    LET b0 == n % 256
        b1 == (n \div 256) % 256
        b2 == (n \div 65536) % 256
        b3 == (n \div 16777216) % 256
    IN  IF order = "little" THEN <<b0, b1, b2, b3>> ELSE <<b3, b2, b1, b0>>

\* (a variant that reads the header in network order on every host)
UnpackNetwork(order, b) ==
    IF b[1] >= 128 THEN 2147483647
    ELSE b[4] + 256 * b[3] + 65536 * b[2] + 16777216 * b[1]

\* A length of 2^31 or more is beyond the integers of the checker: it stands
\* as 2^31 - 1, which like it exceeds every byte count of the model.
Unpack(order, b) ==
    LET lo == IF order = "little" THEN <<b[1], b[2], b[3], b[4]>>
              ELSE <<b[4], b[3], b[2], b[1]>>
    IN  IF lo[4] >= 128 THEN 2147483647
        ELSE lo[1] + 256 * lo[2] + 65536 * lo[3] + 16777216 * lo[4]

(***************************************************************************)
(* json.dumps (ensure_ascii): a str is quoted, '"' and '\' are escaped,    *)
(* the named control characters get their letter escapes and every other   *)
(* character outside ' '..'~' becomes \uXXXX.                              *)
(***************************************************************************)
HexDigit(n) == IF n < 10 THEN 48 + n ELSE 87 + n

EscapeChar(c) ==
    IF c = 34 THEN <<92, 34>>
    ELSE IF c = 92 THEN <<92, 92>>
    ELSE IF c = 10 THEN <<92, 110>>
    ELSE IF c = 13 THEN <<92, 114>>
    ELSE IF c = 9 THEN <<92, 116>>
    ELSE IF c = 8 THEN <<92, 98>>
    ELSE IF c = 12 THEN <<92, 102>>
    ELSE IF c >= 32 /\ c <= 126 THEN <<c>>
    ELSE <<92, 117, HexDigit((c \div 4096) % 16), HexDigit((c \div 256) % 16),
           HexDigit((c \div 16) % 16), HexDigit(c % 16)>>

\* the escapes of s[lo..hi], one after the other
RECURSIVE EscapeRange(_, _, _)
EscapeRange(s, lo, hi) ==
    IF lo > hi THEN <<>>
    ELSE IF lo = hi THEN EscapeChar(s[lo])
    ELSE LET mid == (lo + hi) \div 2
         IN  EscapeRange(s, lo, mid) \o EscapeRange(s, mid + 1, hi)

EscapeAll(s) == EscapeRange(s, 1, Len(s))

DumpsStr(s) == <<34>> \o EscapeAll(s) \o <<34>>

\* json.dumps of the dict send_message builds: its four keys in insertion
\* order, ", " between the items and ": " after each key.
Dumps(message) ==
    LET item(key) == DumpsStr(key) \o <<58, 32>> \o DumpsStr(message.o[key].s)
    IN  <<123>> \o item(KeyType) \o <<44, 32>> \o item(KeyPayload) \o <<44, 32>>
        \o item(KeyRequestId) \o <<44, 32>> \o item(KeyClientId) \o <<125>>

(***************************************************************************)
(* str.encode('utf-8') and bytes.decode('utf-8').                          *)
(***************************************************************************)
EncodeChar(c) ==
    IF c < 128 THEN <<c>>
    ELSE IF c < 2048 THEN <<192 + (c \div 64), 128 + (c % 64)>>
    ELSE IF c < 65536
         THEN <<224 + (c \div 4096), 128 + ((c \div 64) % 64), 128 + (c % 64)>>
    ELSE <<240 + (c \div 262144), 128 + ((c \div 4096) % 64),
           128 + ((c \div 64) % 64), 128 + (c % 64)>>

\* the encodings of s[lo..hi], one after the other
RECURSIVE EncodeRange(_, _, _)
EncodeRange(s, lo, hi) ==
    IF lo > hi THEN <<>>
    ELSE IF lo = hi THEN EncodeChar(s[lo])
    ELSE LET mid == (lo + hi) \div 2
         IN  EncodeRange(s, lo, mid) \o EncodeRange(s, mid + 1, hi)

Utf8Encode(s) == EncodeRange(s, 1, Len(s))

IsCont(b, i) == i <= Len(b) /\ b[i] >= 128 /\ b[i] <= 191

\* the number of bytes of the well-formed sequence starting at b[i], 0 if none
Utf8Width(b, i) ==
    LET c == b[i]
    IN  IF c < 128 THEN 1
        ELSE IF c >= 194 /\ c <= 223 /\ IsCont(b, i + 1) THEN 2
        ELSE IF c >= 224 /\ c <= 239 /\ IsCont(b, i + 1) /\ IsCont(b, i + 2)
                /\ (c = 224 => b[i + 1] >= 160) /\ (c = 237 => b[i + 1] <= 159)
             THEN 3
        ELSE IF c >= 240 /\ c <= 244 /\ IsCont(b, i + 1) /\ IsCont(b, i + 2)
                /\ IsCont(b, i + 3)
                /\ (c = 240 => b[i + 1] >= 144) /\ (c = 244 => b[i + 1] <= 143)
             THEN 4
        ELSE 0

Utf8Char(b, i, w) ==
    IF w = 1 THEN b[i]
    ELSE IF w = 2 THEN (b[i] - 192) * 64 + (b[i + 1] - 128)
    ELSE IF w = 3
         THEN (b[i] - 224) * 4096 + (b[i + 1] - 128) * 64 + (b[i + 2] - 128)
    ELSE (b[i] - 240) * 262144 + (b[i + 1] - 128) * 4096
         + (b[i + 2] - 128) * 64 + (b[i + 3] - 128)

\* A byte string is well formed when each byte that is no continuation byte
\* starts a well-formed sequence and each continuation byte belongs to the
\* sequence of the nearest such byte before it; its characters are those of
\* the sequences, in order.
Utf8Decode(b) ==
    LET lead(i) == ~IsCont(b, i)
        covered(i) == \E k \in 1..3 :
                         /\ i - k >= 1
                         /\ lead(i - k)
                         /\ \A m \in 1..(k - 1) : IsCont(b, i - m)
                         /\ Utf8Width(b, i - k) > k
        ok == \A i \in 1..Len(b) :
                 IF lead(i) THEN Utf8Width(b, i) > 0 ELSE covered(i)
        starts == SelectSeq([i \in 1..Len(b) |-> i], lead)
    IN  IF ok
        THEN [ok |-> TRUE,
              s |-> [n \in 1..Len(starts) |->
                        Utf8Char(b, starts[n], Utf8Width(b, starts[n]))]]
        ELSE [ok |-> FALSE, s |-> <<>>]

(***************************************************************************)
(* json.loads, on the JSON of objects, strings and integers.  A parse      *)
(* yields [ok, v, next]: whether it succeeded, the value, and the index    *)
(* after it.                                                               *)
(***************************************************************************)
ParseFail == [ok |-> FALSE, v |-> PyStr(<<>>), next |-> 0]

Parsed(v, next) == [ok |-> TRUE, v |-> v, next |-> next]

IsWs(c) == c \in {32, 9, 10, 13}

IsDigit(c) == c >= 48 /\ c <= 57

IsHex(c) == IsDigit(c) \/ (c >= 97 /\ c <= 102) \/ (c >= 65 /\ c <= 70)

HexValue(c) == IF IsDigit(c) THEN c - 48 ELSE IF c >= 97 THEN c - 87 ELSE c - 55

RECURSIVE SkipWs(_, _)
SkipWs(s, i) == IF i <= Len(s) /\ IsWs(s[i]) THEN SkipWs(s, i + 1) ELSE i

\* the character a backslash escape stands for, -1 if it is none
Unescape(e) ==
    IF e \in {34, 92, 47} THEN e
    ELSE IF e = 98 THEN 8
    ELSE IF e = 102 THEN 12
    ELSE IF e = 110 THEN 10
    ELSE IF e = 114 THEN 13
    ELSE IF e = 116 THEN 9
    ELSE -1

\* the characters of a string literal whose opening quote precedes s[i]
RECURSIVE ScanStr(_, _, _)
ScanStr(s, i, acc) ==
    IF i > Len(s) THEN ParseFail
    ELSE IF s[i] = 34 THEN Parsed(PyStr(acc), i + 1)
    ELSE IF s[i] < 32 THEN ParseFail
    ELSE IF s[i] # 92 THEN ScanStr(s, i + 1, Append(acc, s[i]))
    ELSE IF i + 1 > Len(s) THEN ParseFail
    ELSE IF s[i + 1] = 117
         THEN IF i + 5 <= Len(s) /\ \A j \in (i + 2)..(i + 5) : IsHex(s[j])
              THEN ScanStr(s, i + 6,
                           Append(acc, HexValue(s[i + 2]) * 4096
                                       + HexValue(s[i + 3]) * 256
                                       + HexValue(s[i + 4]) * 16
                                       + HexValue(s[i + 5])))
              ELSE ParseFail
    ELSE IF Unescape(s[i + 1]) < 0 THEN ParseFail
    ELSE ScanStr(s, i + 2, Append(acc, Unescape(s[i + 1])))

RECURSIVE ScanDigits(_, _)
ScanDigits(s, i) == IF i <= Len(s) /\ IsDigit(s[i]) THEN ScanDigits(s, i + 1) ELSE i

\* -?(0|[1-9][0-9]*)
ParseInt(s, i) ==
    LET d == IF s[i] = 45 THEN i + 1 ELSE i
        e == IF d <= Len(s) /\ s[d] = 48 THEN d + 1 ELSE ScanDigits(s, d)
    IN  IF e = d THEN ParseFail ELSE Parsed(PyInt(SubSeq(s, i, e - 1)), e)

RECURSIVE ParseValue(_, _)
RECURSIVE ParseMembers(_, _, _)
\* the members of an object, from the opening quote of a key at s[i]
ParseMembers(s, i, o) ==
    IF i > Len(s) \/ s[i] # 34 THEN ParseFail
    ELSE With(ScanStr(s, i + 1, <<>>), LAMBDA key :
         IF ~key.ok THEN ParseFail
         ELSE With(SkipWs(s, key.next), LAMBDA c :
              IF c > Len(s) \/ s[c] # 58 THEN ParseFail
              ELSE With(ParseValue(s, SkipWs(s, c + 1)), LAMBDA val :
                   IF ~val.ok THEN ParseFail
                   ELSE With(SkipWs(s, val.next), LAMBDA e :
                        IF e > Len(s) THEN ParseFail
                        ELSE IF s[e] = 44
                             THEN ParseMembers(s, SkipWs(s, e + 1),
                                               DictSet(o, key.v.s, val.v))
                        ELSE IF s[e] = 125
                             THEN Parsed(PyDict(DictSet(o, key.v.s, val.v)), e + 1)
                        ELSE ParseFail))))

ParseValue(s, i) ==
    IF i > Len(s) THEN ParseFail
    ELSE IF s[i] = 34 THEN ScanStr(s, i + 1, <<>>)
    ELSE IF s[i] = 123
         THEN With(SkipWs(s, i + 1), LAMBDA j :
              IF j <= Len(s) /\ s[j] = 125 THEN Parsed(PyDict(<<>>), j + 1)
              ELSE ParseMembers(s, j, <<>>))
    ELSE IF s[i] = 45 \/ IsDigit(s[i]) THEN ParseInt(s, i)
    ELSE ParseFail

\* json.loads: one value, white space around it, nothing after it
Loads(s) ==
    With(ParseValue(s, SkipWs(s, 1)), LAMBDA r :
         IF r.ok /\ SkipWs(s, r.next) = Len(s) + 1 THEN r ELSE ParseFail)


(***************************************************************************)
(* The state.  Fields and locals of the source keep their names; the rest  *)
(* is the environment (the clock, the socket objects, the stream and the   *)
(* peer) and the record of what happened.                                  *)
(***************************************************************************)
VARIABLES
    order,           \* the host's byte order, which struct's 'I' follows
    now,             \* time.time(), in milliseconds
    client_id,       \* self.client_id
    socket,          \* self.socket: 0 is None, else the socket object
    nsock,           \* socket objects created so far
    sockstate,       \* per socket object: none, unconnected, connected,
                     \* closed, dropped (no longer referenced)
    closes,          \* per socket object: the close() calls made on it
    peerOut,         \* bytes the peer wrote that the client has not read
    peerClosed,      \* the peer closed its end
    reply,           \* the frame the peer wrote during the current or last call
    aligned,         \* that frame starts where the call's read started
    pc,              \* where the caller is: idle, header, body
    message,         \* send_message: the envelope of the current or last call
    frame,           \* the bytes that call offered to send()
    wire,            \* the bytes send() accepted from it
    length_data,     \* receive_message: length_data
    message_length,  \* receive_message: message_length
    message_data,    \* receive_message: message_data
    ret,             \* how the last call ended: [line, k, v, exc]
    op,              \* the last method called
    diag,            \* the last diagnostic printed
    nreq,            \* send_message calls made
    ids,             \* the request ids generated so far
    collision,       \* a generated request id had been generated before
    cuts,            \* the short reads of the current or last call
    harness,         \* test_ipc_communication: where it is and what it found
    inflight,        \* on the connection: the request frames written less
                     \* the response reads begun
    lim              \* the bounds of the run: [sockets, requests, clock, cuts]

vars == <<order, now, client_id, socket, nsock, sockstate, closes, peerOut,
          peerClosed, reply, aligned, pc, message, frame, wire, length_data,
          message_length, message_data, ret, op, diag, nreq, ids, collision,
          cuts, inflight, harness, lim>>

session == <<client_id, socket, nsock, sockstate, closes>>

locals == <<message, frame, wire, length_data, message_length, message_data,
            cuts>>

NoValue == PyStr(<<>>)

\* how a call ended: the line of its return statement, the kind of value
\* returned, the value, and the exception that was caught on the way
Return(line, k, v) == [line |-> line, k |-> k, v |-> v, exc |-> ""]

Caught(line, exc) == [line |-> line, k |-> "None", v |-> PyStr(<<>>), exc |-> exc]

Raised(exc) == [line |-> 0, k |-> "raised", v |-> PyStr(<<>>), exc |-> exc]


(***************************************************************************)
(* The arguments the caller passes to send_message: the harness's ping     *)
(* (request_id left to the client) and a call with text that needs         *)
(* escaping and a request_id of the caller's.                              *)
(***************************************************************************)
RequestArgs ==
    { [message_type |-> <<80, 73, 78, 71>>, payload |-> <<112, 105, 110, 103>>,
       request_id |-> <<>>],
      [message_type |-> <<88>>, payload |-> <<233, 34>>, request_id |-> <<114>>] }

(***************************************************************************)
(* What the peer may write.  A body comes with its kind and, when it is a  *)
(* valid envelope, with the value it denotes.                              *)
(***************************************************************************)
Body(kind, body, env) == [kind |-> kind, body |-> body, env |-> env]

PeerBodies ==
    { Body("valid",
           <<123, 34, 112, 97, 121, 108, 111, 97, 100, 34, 58, 34, 34, 44, 34,
             116, 121, 112, 101, 34, 58, 34, 69, 34, 125>>,
           PyDict(DictSet(DictSet(<<>>, KeyPayload, PyStr(<<>>)),
                          KeyType, PyStr(<<69>>)))),
      Body("valid",
           <<123, 34, 116, 121, 112, 101, 34, 58, 34, 80, 79, 78, 71, 34, 44,
             34, 112, 97, 121, 108, 111, 97, 100, 34, 58, 34, 112, 34, 44, 34,
             114, 101, 113, 117, 101, 115, 116, 95, 105, 100, 34, 58, 34, 117,
             34, 125>>,
           PyDict(DictSet(DictSet(DictSet(<<>>, KeyType, PyStr(<<80, 79, 78, 71>>)),
                                  KeyPayload, PyStr(<<112>>)),
                          KeyRequestId, PyStr(<<117>>)))),
      Body("bad_json", <<123, 34, 116, 121, 112, 101, 34, 58>>, NoValue),
      Body("no_payload", <<123, 34, 116, 121, 112, 101, 34, 58, 34, 80, 34, 125>>,
           NoValue),
      Body("no_type",
           <<123, 34, 112, 97, 121, 108, 111, 97, 100, 34, 58, 34, 112, 34, 125>>,
           NoValue),
      Body("int_payload",
           <<123, 34, 116, 121, 112, 101, 34, 58, 34, 80, 34, 44, 34, 112, 97,
             121, 108, 111, 97, 100, 34, 58, 53, 125>>,
           NoValue),
      Body("bad_utf8", <<123, 34, 116, 121, 112, 101, 34, 58, 34, 255, 34, 125>>,
           NoValue),
      Body("empty", <<>>, NoValue) }

\* A frame of the peer: its bytes, the length its header announces and the
\* body it carries.  framing says how the bytes relate to the body: "whole"
\* (the header announces the body's length), "short_body" (it announces
\* more) and "short_header" (the header itself is cut).
PeerFrame(framing, b, bytes, announced) ==
    [framing |-> framing, kind |-> b.kind, body |-> b.body, env |-> b.env,
     bytes |-> bytes, announced |-> announced]

PeerFrames(ord) ==
    { PeerFrame("whole", b, Pack(ord, Len(b.body)) \o b.body, Len(b.body)) :
        b \in PeerBodies }
    \cup { PeerFrame("short_body", b, Pack(ord, Len(b.body) + 3) \o b.body,
                     Len(b.body) + 3) : b \in {c \in PeerBodies : c.kind = "valid" /\ Len(c.body) < 30} }
    \cup { PeerFrame("short_header", b, Take(Pack(ord, Len(b.body)), 2),
                     Len(b.body)) : b \in {c \in PeerBodies : c.kind = "empty"} }

(***************************************************************************)
(* PhantomVaultIPCClient                                                   *)
(***************************************************************************)
\* __init__: the client id is taken from the clock, in seconds
NewClientId(t) == ClientPrefix \o IntToStr(t \div 1000)

\* send_message: the envelope; an empty request_id is replaced by one taken
\* from the clock, in milliseconds
GenerateId(request_id) == request_id = <<>>

RequestId(request_id, t) ==
    IF GenerateId(request_id) THEN ReqPrefix \o IntToStr(t) ELSE request_id

\* (a variant that takes the client id from the clock at each call)
MessageOfTheMoment(args, t, cid) ==
    PyDict(DictSet(DictSet(DictSet(DictSet(<<>>,
        KeyType, PyStr(args.message_type)),
        KeyPayload, PyStr(args.payload)),
        KeyRequestId, PyStr(RequestId(args.request_id, t))),
        KeyClientId, PyStr(ClientPrefix \o IntToStr(t))))

\* lines 47-52
Message(args, t, cid) ==
    PyDict(DictSet(DictSet(DictSet(DictSet(<<>>,
        KeyType, PyStr(args.message_type)),
        KeyPayload, PyStr(args.payload)),
        KeyRequestId, PyStr(RequestId(args.request_id, t))),
        KeyClientId, PyStr(cid)))

MessageBytes(msg) == Utf8Encode(Dumps(msg))

\* (a variant that counts the header in)
LengthWithHeader(ord, message_bytes) == Pack(ord, Len(message_bytes) + 4)

\* line 60: the header announces the number of bytes of the body
Length(ord, message_bytes) == Pack(ord, Len(message_bytes))

\* (a variant that raises instead)
NotConnectedRaises == Raised("ConnectionError")

\* lines 43-45: the guard's return
NotConnected == Return(45, "None", NoValue)

\* (a variant with the test inverted)
TruthyInverted(sock) == sock = 0

\* `if self.socket:` and `if not self.socket:`
Truthy(sock) == sock # 0

\* (a variant that catches the decoding errors only)
CatchesDecodeErrors(exc) == exc \in {"UnicodeDecodeError", "JSONDecodeError",
                                     "KeyError"}

\* `except Exception as e:` of send_message and of receive_message
CatchesSend(exc) == exc \in {"OSError", "UnicodeDecodeError", "JSONDecodeError",
                             "KeyError", "TypeError"}

CatchesRecv(exc) == exc \in {"OSError", "UnicodeDecodeError", "JSONDecodeError",
                             "KeyError", "TypeError"}

\* socket.send(data): the number of bytes the socket accepted, which may be
\* fewer than offered (here: all, or all but the last); -1 stands for
\* OSError.  A socket that is not connected refuses; one whose peer closed
\* may.
SendAccepts(data) == {n \in 1..Len(data) : n >= Len(data) - 1}

SendOutcomes(state, closed, data) ==
    (IF state # "connected" \/ closed THEN {-1} ELSE {})
    \cup (IF state # "connected" THEN {} ELSE SendAccepts(data))

\* (a variant on a socket that does not block)
RecvNeverBlocks == TRUE

\* socket.recv(want) on a stream: some of the bytes the peer wrote, at least
\* one and at most want, as many as have arrived; it blocks while the peer
\* wrote none and has not closed, and returns b"" at the end of the stream.
RecvReady == peerOut # <<>> \/ peerClosed

\* A read is short when it returns fewer bytes than were asked for and
\* written; the model bounds the size and the number per call of such reads.
RecvSizes(want) ==
    LET most == Min(want, Len(peerOut))
    IN  IF peerOut = <<>> THEN {0}
        ELSE {most} \cup {n \in 1..MaxShortRead : n < most /\ cuts < lim.cuts}

\* (a variant that reads the two fields with a default)
DeserializeLenient(data) ==
    With(Utf8Decode(data), LAMBDA text :
    IF ~text.ok THEN [exc |-> "UnicodeDecodeError", msg |-> NoValue]
    ELSE With(Loads(text.s), LAMBDA parsed :
         IF ~parsed.ok THEN [exc |-> "JSONDecodeError", msg |-> NoValue]
         ELSE IF parsed.v.k # "obj" THEN [exc |-> "TypeError", msg |-> NoValue]
         ELSE [exc |-> "", msg |-> parsed.v]))

\* lines 100-104: decode, parse, and the two look-ups of the print
Deserialize(data) ==
    With(Utf8Decode(data), LAMBDA text :
    IF ~text.ok THEN [exc |-> "UnicodeDecodeError", msg |-> NoValue]
    ELSE With(Loads(text.s), LAMBDA parsed :
         LET m == parsed.v
         IN  IF ~parsed.ok THEN [exc |-> "JSONDecodeError", msg |-> NoValue]
             ELSE IF m.k # "obj" THEN [exc |-> "TypeError", msg |-> NoValue]
             ELSE IF KeyType \notin DOMAIN m.o
                  THEN [exc |-> "KeyError", msg |-> NoValue]
             ELSE IF KeyPayload \notin DOMAIN m.o
                  THEN [exc |-> "KeyError", msg |-> NoValue]
             ELSE IF m.o[KeyPayload].k # "str"
                  THEN [exc |-> "TypeError", msg |-> NoValue]
             ELSE [exc |-> "", msg |-> m]))

\* (a variant without the check)
CompleteUnchecked(data, length) == TRUE

\* line 96: the body is complete
Complete(data, length) == Len(data) = length

\* lines 96-108: what receive_message returns once its loop has ended
ReceiveFinish(data, length) ==
    IF ~Complete(data, length) THEN Return(98, "None", NoValue)
    ELSE With(Deserialize(data), LAMBDA d :
              IF d.exc = "" THEN Return(104, "msg", d.msg)
              ELSE IF CatchesRecv(d.exc) THEN Caught(108, d.exc)
              ELSE Raised(d.exc))

\* (a variant that rejects a response whose request_id is not the request's)
ReturnOfMatching(msg, response) ==
    IF response.k = "msg"
       /\ (KeyRequestId \notin DOMAIN response.v.o
           \/ response.v.o[KeyRequestId] # msg.o[KeyRequestId])
    THEN Return(69, "None", NoValue)
    ELSE response

\* line 69: `return self.receive_message()`
ReturnOf(msg, response) == response

\* lines 69-73: the response, or None for an exception caught at line 71
SendFinish(msg, r) ==
    IF r.k # "raised" THEN ReturnOf(msg, r)
    ELSE IF CatchesSend(r.exc) THEN Caught(73, r.exc)
    ELSE r

FinishDiag(r) ==
    IF r.line = 98 THEN "incomplete"
    ELSE IF r.line = 104 THEN "received"
    ELSE IF r.line = 108 THEN "receive_failed"
    ELSE IF r.line = 73 THEN "send_failed"
    ELSE diag

\* (a variant that reads the response whether or not the sends raised)
AfterSendReads(raised) == "header"

\* lines 54-73: an exception raised by send() at line 61 or 64 leaves the
\* try body for the handler at line 71, past the call at line 69
AfterSend(raised) == IF raised THEN "idle" ELSE "header"

\* (a variant that keeps the closed socket)
SocketKept(sock) == sock

\* line 38: self.socket after disconnect
SocketAfterDisconnect(sock) == 0


NoFrame ==
    [framing |-> "none", kind |-> "none", body |-> <<>>, env |-> NoValue,
     bytes |-> <<>>, announced |-> 0]

(***************************************************************************)
(* The initial state: a client just constructed.  The host is              *)
(* little-endian.                                                          *)
(***************************************************************************)
Constructed(bounds) ==
    /\ lim = bounds
    /\ order = "little"
    /\ now = 0
    /\ client_id = NewClientId(now)
    /\ socket = 0
    /\ nsock = 0
    /\ sockstate = [i \in 1..bounds.sockets |-> "none"]
    /\ closes = [i \in 1..bounds.sockets |-> 0]
    /\ peerOut = <<>>
    /\ peerClosed = FALSE
    /\ reply = NoFrame
    /\ aligned = FALSE
    /\ pc = "idle"
    /\ message = PyDict(<<>>)
    /\ frame = <<>>
    /\ wire = <<>>
    /\ length_data = <<>>
    /\ message_length = 0
    /\ message_data = <<>>
    /\ ret = Return(21, "init", NoValue)
    /\ op = "__init__"
    /\ diag = ""
    /\ nreq = 0
    /\ ids = {}
    /\ collision = FALSE
    /\ cuts = 0
    /\ inflight = 0

\* no test run: the methods are called in any order
NoHarness == [at |-> "off", ran |-> {}, failed |-> {}, result |-> "none"]

Init ==
    /\ Constructed([sockets |-> MaxSockets, requests |-> MaxRequests,
                    clock |-> 0, cuts |-> MaxCuts])
    /\ harness = NoHarness

InitSession ==
    /\ Constructed([sockets |-> SessionSockets, requests |-> SessionRequests,
                    clock |-> MaxClock, cuts |-> 0])
    /\ harness = NoHarness

\* the locals of a call are gone when the next call begins
ClearLocals ==
    /\ message' = PyDict(<<>>)
    /\ frame' = <<>>
    /\ wire' = <<>>
    /\ length_data' = <<>>
    /\ message_length' = 0
    /\ message_data' = <<>>
    /\ cuts' = 0

(***************************************************************************)
(* connect: a new socket object replaces self.socket before the            *)
(* connection is attempted, so a refused connection leaves self.socket     *)
(* holding an unconnected socket.  The object self.socket held before is   *)
(* no longer referenced.                                                   *)
(***************************************************************************)
connect ==
    /\ pc = "idle"
    /\ nsock < lim.sockets
    /\ \E accepted \in BOOLEAN :
        /\ nsock' = nsock + 1
        /\ socket' = nsock + 1
        /\ sockstate' =
              [i \in 1..lim.sockets |->
                  IF i = nsock + 1
                  THEN (IF accepted THEN "connected" ELSE "unconnected")
                  ELSE IF i = socket /\ sockstate[i] # "closed" THEN "dropped"
                  ELSE sockstate[i]]
        /\ ret' = IF accepted THEN Return(29, "True", NoValue)
                  ELSE Return(32, "False", NoValue)
        /\ diag' = IF accepted THEN "connected" ELSE "connect_failed"
    /\ peerOut' = <<>>
    /\ peerClosed' = FALSE
    /\ reply' = NoFrame
    /\ aligned' = FALSE
    /\ op' = "connect"
    /\ inflight' = 0
    /\ ClearLocals
    /\ UNCHANGED <<order, now, client_id, closes, pc, nreq, ids, collision, harness, lim>>

(***************************************************************************)
(* disconnect                                                              *)
(***************************************************************************)
disconnect ==
    /\ pc = "idle"
    /\ IF Truthy(socket)
       THEN /\ closes' = [closes EXCEPT ![socket] = @ + 1]
            /\ sockstate' = [sockstate EXCEPT ![socket] = "closed"]
            /\ socket' = SocketAfterDisconnect(socket)
            /\ diag' = "disconnected"
            /\ ret' = Return(39, "None", NoValue)
       ELSE /\ UNCHANGED <<closes, sockstate, socket, diag>>
            /\ ret' = Return(36, "None", NoValue)
    /\ op' = "disconnect"
    /\ reply' = NoFrame
    /\ aligned' = FALSE
    /\ ClearLocals
    /\ UNCHANGED <<order, now, client_id, nsock, peerOut, peerClosed, pc, nreq,
                   ids, collision, inflight, harness, lim>>

(***************************************************************************)
(* send_message, to the point where it waits for the response: the guard,  *)
(* the envelope, the two send() calls, and the entry of receive_message.   *)
(***************************************************************************)
SendMessage(args) ==
    /\ pc = "idle"
    /\ nreq < lim.requests
    /\ nreq' = nreq + 1
    /\ op' = "send_message"
    /\ reply' = NoFrame
    /\ aligned' = FALSE
    /\ length_data' = <<>>
    /\ message_length' = 0
    /\ message_data' = <<>>
    /\ cuts' = 0
    /\ IF ~Truthy(socket)
       THEN /\ diag' = "not_connected"
            /\ ret' = NotConnected
            /\ message' = PyDict(<<>>)
            /\ frame' = <<>>
            /\ wire' = <<>>
            /\ UNCHANGED <<pc, ids, collision, inflight>>
       ELSE
            LET msg == Message(args, now, client_id)
                message_bytes == MessageBytes(msg)
                length == Length(order, message_bytes)
                rid == msg.o[KeyRequestId].s
            IN  /\ message' = msg
                /\ frame' = length \o message_bytes
                /\ ids' = IF GenerateId(args.request_id) THEN ids \cup {rid} ELSE ids
                /\ collision' = (collision \/ (GenerateId(args.request_id) /\ rid \in ids))
                /\ \E n1 \in SendOutcomes(sockstate[socket], peerClosed, length) :
                      IF n1 < 0
                      THEN /\ wire' = <<>>
                           /\ ret' = SendFinish(msg, Raised("OSError"))
                           /\ diag' = FinishDiag(ret')
                           /\ pc' = AfterSend(TRUE)
                           /\ UNCHANGED inflight
                      ELSE \E n2 \in SendOutcomes(sockstate[socket], peerClosed,
                                                  message_bytes) :
                           IF n2 < 0
                           THEN /\ wire' = Take(length, n1)
                                /\ ret' = SendFinish(msg, Raised("OSError"))
                                /\ diag' = FinishDiag(ret')
                                /\ pc' = AfterSend(TRUE)
                                /\ UNCHANGED inflight
                           ELSE /\ wire' = Take(length, n1) \o Take(message_bytes, n2)
                                /\ diag' = "sent"
                                /\ ret' = Return(69, "pending", NoValue)
                                /\ pc' = AfterSend(FALSE)
                                /\ inflight' = inflight + 1
    /\ UNCHANGED <<order, now, session, peerOut, peerClosed, harness, lim>>

send_message == \E args \in RequestArgs : SendMessage(args)

(***************************************************************************)
(* receive_message, lines 82-86: one recv(4); a result that is not 4       *)
(* bytes long ends the call with None.  A length of 0 skips the loop.      *)
(***************************************************************************)
recv_header ==
    /\ pc = "header"
    /\ RecvReady
    /\ \E n \in RecvSizes(HeaderWidth) :
        /\ length_data' = Take(peerOut, n)
        /\ peerOut' = Drop(peerOut, n)
        /\ cuts' = IF n < Min(HeaderWidth, Len(peerOut)) THEN cuts + 1 ELSE cuts
    /\ IF Len(length_data') # HeaderWidth
       THEN /\ ret' = SendFinish(message, Return(84, "None", NoValue))
            /\ pc' = "idle"
            /\ UNCHANGED <<message_length, diag>>
       ELSE /\ message_length' = Unpack(order, length_data')
            /\ IF 0 < message_length'
               THEN /\ pc' = "body"
                    /\ UNCHANGED <<ret, diag>>
               ELSE /\ pc' = "idle"
                    /\ ret' = SendFinish(message, ReceiveFinish(<<>>, message_length'))
                    /\ diag' = FinishDiag(ret')
    /\ inflight' = inflight - 1
    /\ UNCHANGED <<order, now, session, peerClosed, reply, aligned, message,
                   frame, wire, message_data, op, nreq, ids, collision, harness, lim>>

(***************************************************************************)
(* receive_message, lines 90-108: one turn of the loop, and what follows   *)
(* the loop when this turn ends it.                                        *)
(***************************************************************************)
recv_body ==
    /\ pc = "body"
    /\ RecvReady
    /\ \E n \in RecvSizes(message_length - Len(message_data)) :
        LET chunk == Take(peerOut, n)
            data == message_data \o chunk
        IN  /\ peerOut' = Drop(peerOut, n)
            /\ message_data' = data
            /\ cuts' = IF n < Min(message_length - Len(message_data), Len(peerOut))
                       THEN cuts + 1 ELSE cuts
            /\ IF chunk # <<>> /\ Len(data) < message_length
               THEN UNCHANGED <<pc, ret, diag>>
               ELSE /\ pc' = "idle"
                    /\ ret' = SendFinish(message, ReceiveFinish(data, message_length))
                    /\ diag' = FinishDiag(ret')
    /\ UNCHANGED <<order, now, session, peerClosed, reply, aligned, message,
                   frame, wire, length_data, message_length, op, nreq, ids,
                   collision, inflight, harness, lim>>

(***************************************************************************)
(* The environment.  While a call waits, the peer may answer it with one   *)
(* frame: one of its own, or the request as it received it.  It may close  *)
(* at any time.  The clock advances.                                       *)
(***************************************************************************)
Linked == socket # 0 /\ sockstate[socket] = "connected"

\* the request, sent back by a peer that received all of it
EchoFrame ==
    [framing |-> "whole", kind |-> "echo", body |-> Drop(wire, HeaderWidth),
     env |-> message, bytes |-> wire, announced |-> Len(wire) - HeaderWidth]

\* the frame starts where the read of the call started: nothing was left in
\* the stream and the call has read nothing yet
ReadAtBoundary == peerOut = <<>> /\ length_data = <<>> /\ message_data = <<>>

Answer(f) ==
    /\ Linked
    /\ ~peerClosed
    /\ pc # "idle"
    /\ reply = NoFrame
    /\ peerOut' = peerOut \o f.bytes
    /\ reply' = f
    /\ aligned' = ReadAtBoundary
    /\ UNCHANGED <<order, now, session, peerClosed, pc, locals, ret, op, diag,
                   nreq, ids, collision, inflight, harness, lim>>

PeerSend == \E f \in PeerFrames(order) : Answer(f)

PeerEcho == wire = frame /\ Answer(EchoFrame)

PeerClose ==
    /\ Linked
    /\ ~peerClosed
    /\ peerClosed' = TRUE
    /\ UNCHANGED <<order, now, session, peerOut, reply, aligned, pc, locals, ret,
                   op, diag, nreq, ids, collision, inflight, harness, lim>>

Tick ==
    /\ now < lim.clock
    /\ now' = now + 1
    /\ UNCHANGED <<order, session, peerOut, peerClosed, reply, aligned, pc, locals,
                   ret, op, diag, nreq, ids, collision, inflight, harness, lim>>

Next ==
    \/ connect
    \/ disconnect
    \/ send_message
    \/ recv_header
    \/ recv_body
    \/ PeerSend
    \/ PeerEcho
    \/ PeerClose

Spec == Init /\ [][Next]_vars

\* The same, with a client that runs: a recv() that can return does, and the
\* code after it is executed.  Nothing is assumed of the peer.
SpecLive == Init /\ [][Next]_vars /\ WF_vars(recv_header) /\ WF_vars(recv_body)

\* The session over longer runs, with a peer that never answers and a clock.
NextSession ==
    \/ connect
    \/ disconnect
    \/ send_message
    \/ recv_header
    \/ PeerClose
    \/ Tick

SpecSession == InitSession /\ [][NextSession]_vars

(***************************************************************************)
(* test_ipc_communication, lines 110-176: one client, the connection       *)
(* test, four requests whose responses are judged by their type, and the   *)
(* cleanup.  Each test is a call and the statement that judges what the    *)
(* call returned.                                                          *)
(***************************************************************************)
HarnessSockets == 1

Requests == <<"ping", "vault_state", "profiles", "invalid_message">>

\* lines 125, 133, 149, 165: the arguments of the four calls
HarnessArgs(check) ==
    IF check = "ping"
    THEN [message_type |-> <<80, 73, 78, 71>>, payload |-> <<112, 105, 110, 103>>,
          request_id |-> <<>>]
    ELSE IF check = "vault_state"
    THEN [message_type |-> <<71, 69, 84, 95, 86, 65, 85, 76, 84, 95, 83, 84, 65,
                             84, 69>>,
          payload |-> <<>>, request_id |-> <<>>]
    ELSE IF check = "profiles"
    THEN [message_type |-> <<71, 69, 84, 95, 80, 82, 79, 70, 73, 76, 69, 83>>,
          payload |-> <<>>, request_id |-> <<>>]
    ELSE [message_type |-> <<73, 78, 86, 65, 76, 73, 68, 95, 77, 69, 83, 83, 65,
                             71, 69, 95, 84, 89, 80, 69>>,
          payload |-> <<116, 101, 115, 116>>, request_id |-> <<>>]

\* lines 126, 134, 150, 166: the type the response must have
Expected(check) ==
    IF check = "ping" THEN <<80, 79, 78, 71>>
    ELSE IF check = "vault_state"
    THEN <<86, 65, 85, 76, 84, 95, 83, 84, 65, 84, 69, 95, 85, 80, 68, 65, 84, 69>>
    ELSE IF check = "profiles"
    THEN <<80, 82, 79, 70, 73, 76, 69, 95, 85, 80, 68, 65, 84, 69>>
    ELSE <<69, 82, 82, 79, 82, 95, 78, 79, 84, 73, 70, 73, 67, 65, 84, 73, 79,
           78>>

\* `if response and response['type'] == ...`
Passes(check, r) == r.k = "msg" /\ r.v.o[KeyType] = PyStr(Expected(check))

NextCheck(check) ==
    IF check = "connection" THEN "ping"
    ELSE IF check = "ping" THEN "vault_state"
    ELSE IF check = "vault_state" THEN "profiles"
    ELSE IF check = "profiles" THEN "invalid_message"
    ELSE IF check = "invalid_message" THEN "cleanup"
    ELSE "done"

\* lines 119-121: a failed connection test ends the run; lines 126-169: the
\* other tests print their verdict and the run goes on
AfterCheck(check, passed) ==
    IF check = "connection" /\ ~passed THEN "done" ELSE NextCheck(check)

Judged(check, passed) ==
    [at |-> AfterCheck(check, passed),
     ran |-> harness.ran \cup {check},
     failed |-> IF passed THEN harness.failed ELSE harness.failed \cup {check},
     result |-> IF AfterCheck(check, passed) # "done" THEN harness.result
                ELSE IF check = "connection" THEN "False" ELSE "True"]

InitHarness ==
    /\ Constructed([sockets |-> HarnessSockets, requests |-> Len(Requests),
                    clock |-> 0, cuts |-> 0])
    /\ harness = [at |-> "connection", ran |-> {}, failed |-> {},
                  result |-> "none"]

HarnessOnly ==
    UNCHANGED <<order, now, session, peerOut, peerClosed, reply, aligned, pc,
                locals, ret, op, diag, nreq, ids, collision, inflight, lim>>

\* line 119: client.connect()
test_connection_call ==
    /\ harness.at = "connection"
    /\ op = "__init__"
    /\ connect

\* lines 119-121
test_connection ==
    /\ harness.at = "connection"
    /\ op = "connect"
    /\ harness' = Judged("connection", ret.k = "True")
    /\ HarnessOnly

\* lines 125, 133, 149, 165: client.send_message(...)
test_request_call ==
    \E k \in DOMAIN Requests :
        /\ harness.at = Requests[k]
        /\ nreq = k - 1
        /\ SendMessage(HarnessArgs(Requests[k]))

\* lines 126-129, 134-145, 150-161, 166-169
test_request ==
    \E k \in DOMAIN Requests :
        /\ harness.at = Requests[k]
        /\ nreq = k
        /\ pc = "idle"
        /\ harness' = Judged(Requests[k], Passes(Requests[k], ret))
        /\ HarnessOnly

\* line 173: client.disconnect()
test_cleanup_call ==
    /\ harness.at = "cleanup"
    /\ op # "disconnect"
    /\ disconnect

\* lines 175-176
test_cleanup ==
    /\ harness.at = "cleanup"
    /\ op = "disconnect"
    /\ harness' = Judged("cleanup", TRUE)
    /\ HarnessOnly

NextHarness ==
    \/ test_connection_call
    \/ test_connection
    \/ test_request_call
    \/ test_request
    \/ test_cleanup_call
    \/ test_cleanup
    \/ recv_header
    \/ recv_body
    \/ PeerSend
    \/ PeerClose

SpecHarness == InitHarness /\ [][NextHarness]_vars

(***************************************************************************)
(* Properties.                                                             *)
(***************************************************************************)
\* send_message was the last method called and it has returned
Returned == op = "send_message" /\ pc = "idle"

\* the write step of the last send_message ended without an error
Written == op = "send_message" /\ ret.line \in {69, 84, 98, 104, 108}

IsEnvelope(v) == v.k = "obj" /\ KeyType \in DOMAIN v.o /\ KeyPayload \in DOMAIN v.o

\* the bodies of the peer that are no envelope
BadBodies == {b.body : b \in {c \in PeerBodies : c.kind # "valid"}}

\* a connection, framing or decode error occurred in the last call: no
\* complete header was read, or not the body it announced, or a body that
\* is no envelope
Faulted ==
    \/ Len(length_data) # HeaderWidth
    \/ Len(message_data) # message_length
    \/ message_data \in BadBodies

\* the peer answered the last call with a well-formed frame, written where
\* the call's read started
AnsweredWhole == aligned /\ reply.framing = "whole"

\* C1: whenever send_message fails on a send that raises, a truncated header
\* or an early close, the session is no longer connected when the call
\* returns.
C1_FatalErrorDisconnects ==
    (Returned /\ ret.line \in {73, 84, 98}) => ~Linked

\* C2: send_message never lets an exception escape; it returns an envelope or
\* None, and None whenever a connection, framing or decode error occurred.
C2_NeverRaises ==
    Returned =>
        /\ ret.k \in {"None", "msg"}
        /\ (ret.k = "msg" => IsEnvelope(ret.v))
        /\ (Faulted => ret.k = "None")

C2_Witness == Returned /\ ret.k = "None" /\ ret.exc = "OSError" /\ Linked

\* C3: a well-formed frame carrying an envelope is returned as that envelope,
\* however the stream cut its bytes into reads, the header's included.
C3_PartialReadReassembly ==
    (Returned /\ AnsweredWhole /\ reply.kind \in {"valid", "echo"}) =>
        (ret.k = "msg" /\ ret.v = reply.env)

\* C4: when the write step ended without an error, every byte of the frame
\* was written.
C4_FrameWrittenFully == Written => wire = frame

\* C5: a stream that ends after a complete header and before the announced
\* body makes the call return None at line 98; no envelope is returned from
\* fewer bytes than announced.
C5_EarlyCloseDetected ==
    Returned =>
        /\ (Len(length_data) = HeaderWidth /\ Len(message_data) < message_length
               => ret.k = "None" /\ ret.line = 98)
        /\ (ret.k = "msg" => Len(message_data) = message_length)

C5_Witness ==
    /\ Returned
    /\ Len(length_data) = HeaderWidth
    /\ 0 < Len(message_data)
    /\ Len(message_data) < message_length
    /\ reply.kind = "valid"
    /\ ret.line = 98

\* C6: no two generated request ids of a session are equal.
C6_RequestIdsUnique == ~collision

C8_DisconnectIdempotent ==
    [][ disconnect =>
          IF socket # 0
          THEN /\ closes[socket] = 0
               /\ closes' = [closes EXCEPT ![socket] = 1]
               /\ socket' = 0
          ELSE UNCHANGED <<session, peerOut, peerClosed>> ]_vars

C8_Witness ==
    /\ op = "disconnect"
    /\ ret.line = 36
    /\ \E i \in DOMAIN closes : closes[i] = 1

\* C9: the next decodable frame is returned as the response whatever
\* request_id it carries, the request's or another or none.
C9_NoCorrelation ==
    (Returned /\ AnsweredWhole /\ reply.kind = "valid"
        /\ Len(length_data) = HeaderWidth) =>
        (ret.k = "msg" /\ ret.v = reply.env)

C9_Witness ==
    /\ Returned
    /\ ret.k = "msg"
    /\ KeyRequestId \in DOMAIN ret.v.o
    /\ ret.v.o[KeyRequestId] # message.o[KeyRequestId]

\* C10: the read side recovers the body of every frame the write side's
\* framing produces, the empty body and bodies read in several reads
\* included, and the envelope of a request that comes back.
C10_FramingRoundTrip ==
    (Returned /\ AnsweredWhole /\ Len(length_data) = HeaderWidth) =>
        /\ message_length = Len(reply.body)
        /\ message_data = reply.body
        /\ (reply.kind = "echo" => ret.k = "msg" /\ ret.v = message)

C10_Witness ==
    /\ Returned
    /\ AnsweredWhole
    /\ reply.kind = "echo"
    /\ cuts > 0
    /\ ret.k = "msg"
    /\ ret.v = message

\* the value of a header in the host's byte order
HeaderValue(b) ==
    IF order = "little" THEN b[1] + 256 * b[2] + 65536 * b[3] + 16777216 * b[4]
    ELSE b[4] + 256 * b[3] + 65536 * b[2] + 16777216 * b[1]

\* C11: the header of every frame the client offers to send() announces the
\* number of bytes of the body offered with it, and that body is the UTF-8
\* encoding of the JSON text of the envelope.
C11_LengthAccuracy ==
    (op = "send_message" /\ frame # <<>>) =>
        /\ Len(frame) >= HeaderWidth
        /\ HeaderValue(Take(frame, HeaderWidth)) = Len(frame) - HeaderWidth
        /\ Drop(frame, HeaderWidth) = Utf8Encode(Dumps(message))

C11_Witness ==
    /\ op = "send_message"
    /\ frame # <<>>
    /\ \E i \in DOMAIN message.o[KeyPayload].s : message.o[KeyPayload].s[i] > 127
    /\ pc = "header"

\* C14: a connect() that fails leaves the session without a socket.
C14_FailedConnectDisconnected ==
    (op = "connect" /\ ret.line = 32) => socket = 0

C18_AlignmentPreserved ==
    (Returned /\ Linked /\ AnsweredWhole) => peerOut = <<>>

\* C19: send_message on a session that holds no socket returns None from the
\* guard and changes neither the session nor any stream.
C19_RequestWhenDisconnected ==
    [][ (send_message /\ socket = 0) =>
           /\ ret'.line = 45
           /\ ret'.k = "None"
           /\ pc' = "idle"
           /\ wire' = <<>>
           /\ UNCHANGED <<session, peerOut, peerClosed>> ]_vars

C19_Witness ==
    /\ op = "send_message"
    /\ ret.line = 45
    /\ nsock = 0
    /\ socket = 0

\* C13: self.client_id is the one assigned at construction, whatever was
\* called since, and every envelope the client builds carries it.
C13_ClientIdStable ==
    /\ client_id = NewClientId(0)
    /\ (frame # <<>> => message.o[KeyClientId] = PyStr(NewClientId(0)))

C13_Witness ==
    /\ nreq = 2
    /\ frame # <<>>
    /\ now > 0
    /\ \E i \in DOMAIN closes : closes[i] > 0
    /\ message.o[KeyClientId] = PyStr(client_id)

\* C15: a call offers at most one frame; when its sends raised, or the guard
\* rejected it, it reads nothing; a frame written is followed by one read
\* begun before the call returns, so the frames written exceed the reads
\* begun by one at most, and by none between calls.
C15_OneRequestInFlight ==
    /\ inflight \in {0, 1}
    /\ (pc = "idle" => inflight = 0)
    /\ Len(wire) <= Len(frame)
    /\ (op = "send_message" /\ ret.line \in {45, 73} =>
           pc = "idle" /\ length_data = <<>> /\ message_data = <<>>)

C15_Witness ==
    /\ Returned
    /\ Linked
    /\ ret.line = 73
    /\ ret.exc = "OSError"
    /\ wire # <<>>
    /\ inflight = 0
    /\ length_data = <<>>

\* C12: a call that waits for its response does not return while the peer
\* has written nothing that is unread and has not closed; once the peer has
\* closed, or has written a whole frame where the read began, the call
\* returns.
C12_BlocksUntilFrameOrClose ==
    /\ [][ (pc # "idle" /\ peerOut = <<>> /\ ~peerClosed) => pc' # "idle" ]_vars
    /\ ((pc # "idle" /\ (peerClosed \/ AnsweredWhole)) ~> pc = "idle")

C12_Witness ==
    /\ pc = "body"
    /\ Linked
    /\ peerOut = <<>>
    /\ ~peerClosed
    /\ reply.framing = "short_body"

\* C17: when the test run has ended, each of the four requests and the
\* cleanup have been executed, whichever tests failed.
C17_HarnessContinues ==
    harness.at = "done" =>
        {"ping", "vault_state", "profiles", "invalid_message", "cleanup"}
            \subseteq harness.ran

=============================================================================
